---- MODULE Spec2Model ----
(***************************************************************************)
(* A model of the crawler of crawl.go: Crawler.Crawl (the orchestrator),   *)
(* Crawler.startFetcher (the fetch workers), the two unbuffered channels   *)
(* between them, and the clean-up of the results.                          *)
(*                                                                         *)
(* A Go string is a sequence of one-character strings, so that parsing,    *)
(* resolution, formatting and byte-wise comparison are computed and not    *)
(* assumed.  The alphabet is Chars, listed in ascending byte order.        *)
(***************************************************************************)
EXTENDS Integers, Sequences, FiniteSets, Bags, TLC

(***************************************************************************)
(* Bounds of the model.                                                    *)
(***************************************************************************)
\* The largest number of fetchers a Crawler is configured with.
MaxFetchers == 2

(***************************************************************************)
(* Strings.  The helpers are functions: a function's argument is a value,  *)
(* computed once.                                                          *)
(***************************************************************************)
\* The characters of the modelled strings, in ascending byte order
\* ('#' 0x23, '/' 0x2f, ':' 0x3a, '?' 0x3f, then the lower-case letters).
Chars == <<"#", "/", ":", "?", "a", "b", "s", "x", "y">>

Char == {Chars[i] : i \in 1..Len(Chars)}

Letters == {"a", "b", "s", "x", "y"}

\* The Go strings, and the slices of strings.
Str == Seq(Char)
Strs == Seq(Str)

\* The byte order of a character.
Ord[c \in Char] == CHOOSE i \in 1..Len(Chars) : Chars[i] = c

\* a < b for Go strings: byte-wise lexicographic order.
StrLess[a \in Str, b \in Str] ==
  IF b = <<>> THEN FALSE
  ELSE IF a = <<>> THEN TRUE
  ELSE IF Head(a) # Head(b) THEN Ord[Head(a)] < Ord[Head(b)]
  ELSE StrLess[Tail(a), Tail(b)]

\* strings.Index(s, c) for a one-byte c, counted from 1; 0 when c is absent.
Index[s \in Str, c \in Char] ==
  IF \E i \in 1..Len(s) : s[i] = c
  THEN CHOOSE i \in 1..Len(s) : s[i] = c /\ \A j \in 1..(i - 1) : s[j] # c
  ELSE 0

\* strings.LastIndex(s, c), counted from 1; 0 when c is absent.
LastIndex[s \in Str, c \in Char] ==
  IF \E i \in 1..Len(s) : s[i] = c
  THEN CHOOSE i \in 1..Len(s) : s[i] = c /\ \A j \in (i + 1)..Len(s) : s[j] # c
  ELSE 0

\* strings.Cut(s, c): the text before and after the first c.
CutBefore[s \in Str, c \in Char] ==
  IF Index[s, c] = 0 THEN s ELSE SubSeq(s, 1, Index[s, c] - 1)

CutAfter[s \in Str, c \in Char] ==
  IF Index[s, c] = 0 THEN <<>> ELSE SubSeq(s, Index[s, c] + 1, Len(s))

\* strings.HasPrefix(s, p).
HasPrefix[s \in Str, p \in Str] == Len(s) >= Len(p) /\ SubSeq(s, 1, Len(p)) = p

\* strings.Count(s, c).
Count[s \in Str, c \in Char] == Cardinality({i \in 1..Len(s) : s[i] = c})

(***************************************************************************)
(* net/url, as crawl.go uses it: url.Parse, URL.Parse, URL.String.         *)
(***************************************************************************)
\* A *url.URL: the fields crawl.go reads or writes, and those String reads.
URL == [Scheme : Str, Opaque : Str, Host : Str, Path : Str,
        ForceQuery : BOOLEAN, RawQuery : Str, Fragment : Str,
        OmitHost : BOOLEAN]

NoURL == [Scheme |-> <<>>, Opaque |-> <<>>, Host |-> <<>>, Path |-> <<>>,
          ForceQuery |-> FALSE, RawQuery |-> <<>>, Fragment |-> <<>>,
          OmitHost |-> FALSE]

\* What a parse returns: the URL, or the error (ok is FALSE).
Parsed == [ok : BOOLEAN, url : URL]

ParseError == [ok |-> FALSE, url |-> NoURL]

\* getScheme: the length of the scheme of rawURL (letters up to a ':'),
\* 0 when there is none, -1 for "missing protocol scheme" (a leading ':').
SchemeLen[rawURL \in Str] ==
  IF \A i \in 1..Len(rawURL) : rawURL[i] \in Letters THEN 0
  ELSE IF rawURL[CHOOSE i \in 1..Len(rawURL) :
                   /\ rawURL[i] \notin Letters
                   /\ \A j \in 1..(i - 1) : rawURL[j] \in Letters] # ":" THEN 0
  ELSE Index[rawURL, ":"] - (IF Index[rawURL, ":"] = 1 THEN 2 ELSE 1)

\* parseHost: a host with a ':' must end in ':' and a port of digits; the
\* alphabet has no digit, so only an empty port is valid.
ValidHost[host \in Str] == LastIndex[host, ":"] \in {0, Len(host)}

\* parse, with an authority: rest is "//" authority path.
ParseAuthority[scheme \in Str, authority \in Str, path \in Str, force \in BOOLEAN, query \in Str, frag \in Str] ==
  IF ~ValidHost[authority] THEN ParseError
  ELSE [ok |-> TRUE,
        url |-> [Scheme |-> scheme, Opaque |-> <<>>, Host |-> authority,
                 Path |-> path, ForceQuery |-> force, RawQuery |-> query,
                 Fragment |-> frag, OmitHost |-> FALSE]]

\* parse, from the authority on: rest is what follows the query split.
ParseHier[scheme \in Str, rest \in Str, force \in BOOLEAN, query \in Str, frag \in Str] ==
  IF ~HasPrefix[rest, <<"/">>] /\ scheme # <<>>
    THEN [ok |-> TRUE,
          url |-> [NoURL EXCEPT !.Scheme = scheme, !.Opaque = rest,
                                !.ForceQuery = force, !.RawQuery = query,
                                !.Fragment = frag]]
  ELSE IF ~HasPrefix[rest, <<"/">>] /\ Index[CutBefore[rest, "/"], ":"] # 0
    THEN ParseError
  ELSE IF ~HasPrefix[rest, <<"/", "/">>]
    THEN [ok |-> TRUE,
          url |-> [Scheme |-> scheme, Opaque |-> <<>>, Host |-> <<>>,
                   Path |-> rest, ForceQuery |-> force, RawQuery |-> query,
                   Fragment |-> frag,
                   OmitHost |-> scheme # <<>> /\ HasPrefix[rest, <<"/">>]]]
  ELSE ParseAuthority[scheme,
                      CutBefore[SubSeq(rest, 3, Len(rest)), "/"],
                      IF Index[SubSeq(rest, 3, Len(rest)), "/"] = 0 THEN <<>>
                      ELSE SubSeq(rest, 2 + Index[SubSeq(rest, 3, Len(rest)), "/"],
                                  Len(rest)),
                      force, query, frag]

\* parse, from the query on: a lone trailing '?' forces an empty query.
ParseQuery[scheme \in Str, rest \in Str, frag \in Str] ==
  IF Len(rest) > 0 /\ rest[Len(rest)] = "?" /\ Count[rest, "?"] = 1
  THEN ParseHier[scheme, SubSeq(rest, 1, Len(rest) - 1), TRUE, <<>>, frag]
  ELSE ParseHier[scheme, CutBefore[rest, "?"], FALSE, CutAfter[rest, "?"], frag]

\* parse, from the scheme on.
ParseScheme[u \in Str, frag \in Str] ==
  IF SchemeLen[u] = -1 THEN ParseError
  ELSE IF SchemeLen[u] > 0
    THEN ParseQuery[SubSeq(u, 1, SchemeLen[u]),
                    SubSeq(u, SchemeLen[u] + 2, Len(u)), frag]
  ELSE ParseQuery[<<>>, u, frag]

\* url.Parse(rawURL): [ok, url].
ParseURL[rawURL \in Str] ==
  ParseScheme[CutBefore[rawURL, "#"], CutAfter[rawURL, "#"]]

\* resolvePath(base, ref) for paths without "." and ".." segments: the
\* joined path, with a leading '/'.
CleanPath[full \in Str] ==
  IF full = <<>> THEN <<>>
  ELSE IF full[1] = "/" THEN full
  ELSE <<"/">> \o full

ResolvePath[base \in Str, ref \in Str] ==
  IF ref = <<>> THEN CleanPath[base]
  ELSE IF ref[1] # "/" THEN CleanPath[SubSeq(base, 1, LastIndex[base, "/"]) \o ref]
  ELSE CleanPath[ref]

\* URL.ResolveReference(ref).
ResolveReference[u \in URL, ref \in URL] ==
  IF ref.Scheme # <<>> \/ ref.Host # <<>>
    THEN [ref EXCEPT !.Scheme = IF @ = <<>> THEN u.Scheme ELSE @,
                     !.Path = ResolvePath[ref.Path, <<>>]]
  ELSE IF ref.Opaque # <<>>
    THEN [ref EXCEPT !.Scheme = u.Scheme, !.Host = <<>>, !.Path = <<>>]
  ELSE IF ref.Path = <<>> /\ ~ref.ForceQuery /\ ref.RawQuery = <<>>
    THEN IF u.Opaque # <<>>
         THEN [ref EXCEPT !.Scheme = u.Scheme, !.RawQuery = u.RawQuery,
                          !.Fragment = IF @ = <<>> THEN u.Fragment ELSE @,
                          !.Opaque = u.Opaque, !.Host = <<>>, !.Path = <<>>]
         ELSE [ref EXCEPT !.Scheme = u.Scheme, !.RawQuery = u.RawQuery,
                          !.Fragment = IF @ = <<>> THEN u.Fragment ELSE @,
                          !.Host = u.Host, !.Path = ResolvePath[u.Path, <<>>]]
  ELSE IF ref.Path = <<>> /\ u.Opaque # <<>>
    THEN [ref EXCEPT !.Scheme = u.Scheme, !.Opaque = u.Opaque,
                     !.Host = <<>>, !.Path = <<>>]
  ELSE [ref EXCEPT !.Scheme = u.Scheme, !.Host = u.Host,
                   !.Path = ResolvePath[u.Path, ref.Path]]

\* URL.Parse(ref): url.Parse(ref), then ResolveReference.
ResolveParsed[base \in URL, p \in Parsed] ==
  IF p.ok THEN [ok |-> TRUE, url |-> ResolveReference[base, p.url]]
  ELSE ParseError

ParseRef[base \in URL, ref \in Str] == ResolveParsed[base, ParseURL[ref]]

\* URL.String().  (The "./" that String puts before a first path segment
\* holding a ':' needs an empty scheme and an empty host; every URL crawl.go
\* formats is resolved against a base that has a scheme, see Seeds.)
URLString[u \in URL] ==
  (IF u.Scheme # <<>> THEN u.Scheme \o <<":">> ELSE <<>>)
  \o (IF u.Opaque # <<>> THEN u.Opaque
      ELSE (IF (u.Scheme # <<>> \/ u.Host # <<>>)
               /\ ~(u.OmitHost /\ u.Host = <<>>)
               /\ (u.Host # <<>> \/ u.Path # <<>>)
            THEN <<"/", "/">> \o u.Host ELSE <<>>)
           \o (IF u.Path # <<>> /\ u.Path[1] # "/" /\ u.Host # <<>>
               THEN <<"/">> ELSE <<>>)
           \o u.Path)
  \o (IF u.ForceQuery \/ u.RawQuery # <<>> THEN <<"?">> \o u.RawQuery ELSE <<>>)
  \o (IF u.Fragment # <<>> THEN <<"#">> \o u.Fragment ELSE <<>>)

(***************************************************************************)
(* The inputs: the seeds, and the link graphs the fetch function serves.   *)
(***************************************************************************)
\* "s://x", the seed of the test (there "https://monzo.com").
RootURL == <<"s", ":", "/", "/", "x">>
\* ":", which url.Parse rejects ("missing protocol scheme").
BadURL == <<":">>

PageSlash == RootURL \o <<"/">>
PageA == RootURL \o <<"/", "a">>
PageB == RootURL \o <<"/", "b">>
PageAB == RootURL \o <<"/", "a", "b">>
OtherURL == <<"s", ":", "/", "/", "y">>

\* "s://x/a?b", a seed with a query.
QueryURL == PageA \o <<"?", "b">>

Seeds == {RootURL, QueryURL, BadURL}

\* The table `want` of TestCrawl, with x for monzo.com, y for the other
\* hosts, and /a, /b, /ab for /foo, /bar, /baz.
TestGraph ==
  (RootURL :> << <<"/">>, <<"/", "b">> >>)
  @@ (PageSlash :> << <<"/", "a">>, PageB >>)
  @@ (PageA :> << <<"/">>, <<"b">>, <<"/", "a", "b">> >>)
  @@ (PageB :> << OtherURL, <<"b">> >>)
  @@ (PageAB :> << OtherURL >>)

\* A graph around the seed with a query: links that resolve to the seed
\* without its query (the empty link, a lone query, a lone fragment).
QueryGraph ==
  (QueryURL :> << <<>>, <<"/", "a", "?", "b">>, <<"b">> >>)
  @@ (PageA :> << <<"?", "b">>, <<"#", "a">> >>)
  @@ (PageB :> << <<"a", "?", "b">> >>)

\* A graph with more new links on a page than there are fetchers; "s://x/"
\* is not served.
WideGraph ==
  (RootURL :> << <<"/", "a">>, <<"/", "b">>, <<"/", "a", "b">>, <<"/">> >>)
  @@ (PageA :> << <<"/", "b">>, <<"/", "a", "b">> >>)
  @@ (PageB :> << <<"a">> >>)
  @@ (PageAB :> << >>)

\* The link lists of the generated graphs: relative and absolute same-host
\* links; links equal after the query and the fragment are cleared, a
\* cross-host link and a link with an empty query; an unresolvable link, a
\* link twice on a page and the empty link; no link.
LinkLists ==
  { << <<"/", "b">>, <<"a">> >>,
    << <<"/", "a", "?", "b">>, <<"/", "a", "#", "b">>,
       <<"/", "/", "y", "/", "a">>, <<"/", "a", "?">> >>,
    << <<":">>, <<"/", "b">>, <<"/", "b">>, <<>> >>,
    << >> }

GenPages == {RootURL, PageA, PageB}

\* A graph serves the pages of its domain; any other URL is a fetch error.
Graphs == {TestGraph, QueryGraph, WideGraph} \cup UNION {[D -> LinkLists] : D \in SUBSET GenPages}

(***************************************************************************)
(* The state.                                                              *)
(***************************************************************************)
VARIABLES
  addr,         \* the argument of Crawl
  numFetchers,  \* Crawler.numFetchers
  pages,        \* the graph Crawler.fetch serves
  pc,           \* where Crawl is: "start", "loop", "select", "cleanup", "returned"
  root,         \* root, the parsed seed
  closed,       \* whether tofetch is closed
  work,         \* the work queue
  visited,      \* the keys of the map visited
  fetching,     \* the number of fetches in progress
  sendWork,     \* whether sendWork is tofetch (TRUE) or nil (FALSE)
  next,         \* the URL offered on sendWork
  results,      \* results; the returned slice once pc = "returned"
  err,          \* the error Crawl returns
  fetchers,     \* each fetcher goroutine: where it is and its Result r
  sent,         \* history: the bag of URLs sent on tofetch
  calls,        \* history: the bag of URLs c.fetch was called with
  arrived       \* history: the URLs of the Results received, in order

vars == <<addr, numFetchers, pages, pc, root, closed, work, visited, fetching,
          sendWork, next, results, err, fetchers, sent, calls, arrived>>

\* A Result; Err is "nil" or the error.
NoResult == [URL |-> <<>>, Links |-> <<>>, Err |-> "nil"]

\* A Crawl that starts one fetcher when numFetchers is below 1.
AtLeastOneFetcher == 1..(IF numFetchers < 1 THEN 1 ELSE numFetchers)

\* The fetchers Crawl starts: for i := 0; i < c.numFetchers; i++.
Fetchers == 1..numFetchers

(***************************************************************************)
(* Crawler.fetch.                                                          *)
(***************************************************************************)
\* fetchMem of the test, and the shape of fetchHTTP: the links of the page
\* and no error, or no links and an error.
LinksIn(g, u) == IF u \in DOMAIN g THEN g[u] ELSE <<>>
ErrIn(g, u) == IF u \in DOMAIN g THEN "nil" ELSE "not found"

FetchLinks(u) == LinksIn(pages, u)
FetchErr(u) == ErrIn(pages, u)

(***************************************************************************)
(* Crawl: set-up.                                                          *)
(***************************************************************************)
\* NewCrawler takes any int: a negative numFetchers starts no fetcher, as 0.
Init ==
  /\ addr \in Seeds
  /\ numFetchers \in (-1)..MaxFetchers
  /\ pages \in Graphs
  /\ pc = "start"
  /\ root = NoURL
  /\ closed = FALSE
  /\ work = <<>>
  /\ visited = {}
  /\ fetching = 0
  /\ sendWork = FALSE
  /\ next = <<>>
  /\ results = <<>>
  /\ err = "nil"
  /\ fetchers = [w \in Fetchers |-> [st |-> "none", r |-> NoResult]]
  /\ sent = EmptyBag
  /\ calls = EmptyBag
  /\ arrived = <<>>

\* A Crawl that does not check the error of url.Parse(addr).
SeedUnchecked(a) == TRUE

\* url.Parse(addr) fails: Crawl returns nil and the error.
SeedParses(a) == ParseURL[a].ok

StartInvalid ==
  /\ pc = "start"
  /\ ~SeedParses(addr)
  /\ pc' = "returned"
  /\ err' = "invalid starting URL"
  /\ UNCHANGED <<addr, numFetchers, pages, root, closed, work, visited, fetching,
                 sendWork, next, results, fetchers, sent, calls, arrived>>

\* The fetchers Crawl starts: numFetchers goroutines, each at its range loop.
StartedFetchers == [w \in Fetchers |-> [st |-> "recv", r |-> NoResult]]

\* url.Parse(addr) succeeds: the channels, the fetchers, the work queue.
Start ==
  /\ pc = "start"
  /\ SeedParses(addr)
  /\ root' = ParseURL[addr].url
  /\ fetchers' = StartedFetchers
  /\ work' = <<addr>>
  /\ visited' = {}
  /\ fetching' = 0
  /\ results' = <<>>
  /\ pc' = "loop"
  /\ UNCHANGED <<addr, numFetchers, pages, closed, sendWork, next, err, sent, calls, arrived>>

(***************************************************************************)
(* Crawl: the top of the loop.                                             *)
(***************************************************************************)
\* A loop that does not look up visited[next].
NeverVisited(u) == FALSE

\* visited[next] at the head of the queue.
AlreadyVisited(u) == u \in visited

\* A duplicate slipped into the queue: drop it and continue.
SkipVisited ==
  /\ pc = "loop"
  /\ Len(work) > 0
  /\ AlreadyVisited(work[1])
  /\ work' = Tail(work)
  /\ sendWork' = FALSE
  /\ next' = <<>>
  /\ UNCHANGED <<addr, numFetchers, pages, pc, root, closed, visited, fetching,
                 results, err, fetchers, sent, calls, arrived>>

\* There is work: offer its head on tofetch, and go to the select.
OfferWork ==
  /\ pc = "loop"
  /\ Len(work) > 0
  /\ ~AlreadyVisited(work[1])
  /\ sendWork' = TRUE
  /\ next' = work[1]
  /\ pc' = "select"
  /\ UNCHANGED <<addr, numFetchers, pages, root, closed, work, visited, fetching,
                 results, err, fetchers, sent, calls, arrived>>

\* A loop that is done as soon as the queue is empty.
QueueEmpty == Len(work) = 0

\* The queue is empty and no fetching is in progress.
CrawlDone == Len(work) = 0 /\ fetching = 0

\* A loop that breaks without close(tofetch).
LeaveWithoutClose ==
  /\ pc = "loop"
  /\ CrawlDone
  /\ sendWork' = FALSE
  /\ next' = <<>>
  /\ pc' = "cleanup"
  /\ UNCHANGED <<addr, numFetchers, pages, root, closed, work, visited, fetching,
                 results, err, fetchers, sent, calls, arrived>>

\* Done: close tofetch and leave the loop.
CloseIntake ==
  /\ pc = "loop"
  /\ CrawlDone
  /\ closed' = TRUE
  /\ sendWork' = FALSE
  /\ next' = <<>>
  /\ pc' = "cleanup"
  /\ UNCHANGED <<addr, numFetchers, pages, root, work, visited, fetching,
                 results, err, fetchers, sent, calls, arrived>>

\* A loop whose sendWork is tofetch on every iteration.
AwaitOffering ==
  /\ pc = "loop"
  /\ Len(work) = 0
  /\ ~CrawlDone
  /\ sendWork' = TRUE
  /\ next' = <<>>
  /\ pc' = "select"
  /\ UNCHANGED <<addr, numFetchers, pages, root, closed, work, visited, fetching,
                 results, err, fetchers, sent, calls, arrived>>

\* No work but fetches in progress: go to the select with a nil sendWork.
AwaitResults ==
  /\ pc = "loop"
  /\ Len(work) = 0
  /\ ~CrawlDone
  /\ sendWork' = FALSE
  /\ next' = <<>>
  /\ pc' = "select"
  /\ UNCHANGED <<addr, numFetchers, pages, root, closed, work, visited, fetching,
                 results, err, fetchers, sent, calls, arrived>>

(***************************************************************************)
(* Crawl: the select.  Both channels are unbuffered: a send happens with   *)
(* a fetcher at its receive, a receive with a fetcher at its send.         *)
(***************************************************************************)
\* A tofetch with a buffer: the send proceeds with no fetcher at its receive.
SendBuffered(w) == sendWork /\ ~closed

\* A send that waits until every fetcher is at its receive.
SendWhenAllIdle(w) ==
  sendWork /\ ~closed /\ \A v \in Fetchers : fetchers[v].st = "recv"

\* case sendWork <- next can proceed with fetcher w.
SendReady(w) == sendWork /\ ~closed /\ fetchers[w].st = "recv"

\* A select that does not receive while it offers work.
RecvOnlyWhenIdle(w) == fetchers[w].st = "send" /\ ~sendWork

\* case page := <-fetched can proceed with fetcher w.
RecvReady(w) == fetchers[w].st = "send"

\* r := Result{URL: u} of the fetcher that received u.
NewResult(u) == [URL |-> u, Links |-> <<>>, Err |-> "nil"]

\* A send that forgets fetching++.
NoIncr(n) == n

\* fetching++.
Incr(n) == n + 1

\* A receive that forgets fetching--.
NoDecr(n) == n

\* fetching--.
Decr(n) == n - 1

\* case sendWork <- next: fetcher w receives next.
SendWork(w) ==
  /\ pc = "select"
  /\ SendReady(w)
  /\ visited' = visited \cup {next}
  /\ work' = Tail(work)
  /\ fetching' = Incr(fetching)
  /\ fetchers' = [fetchers EXCEPT ![w] = [st |-> "fetch", r |-> NewResult(next)]]
  /\ sent' = sent (+) SetToBag({next})
  /\ pc' = "loop"
  /\ UNCHANGED <<addr, numFetchers, pages, root, closed, sendWork, next,
                 results, err, calls, arrived>>

\* A normalisation that clears the fragment only.
ClearFragmentOnly(link) == [link EXCEPT !.Fragment = <<>>]

\* link.Fragment = ""; link.RawQuery = "".
ClearFragmentAndQuery(link) == [link EXCEPT !.Fragment = <<>>, !.RawQuery = <<>>]

\* A crawl with no host filter.
AnyHost(link) == TRUE

\* link.Host != root.Host does not hold.
SameHost(link) == link.Host = root.Host

\* A link loop that does not look up visited[l].
NeverSeen(l) == FALSE

\* visited[l] of a link found on a page.
SeenLink(l) == l \in visited

\* The work queue after one resolved link: the link is cleared, formatted,
\* filtered by host and by visited, and appended.
EnqueueLink(link, l, w) ==
  IF ~SameHost(link) THEN w
  ELSE IF SeenLink(l) THEN w
  ELSE Append(w, l)

\* The work queue after one raw link; p is base.Parse(l), and a link that
\* does not resolve is skipped.
ProcessLink(p, w) ==
  IF ~p.ok THEN w
  ELSE EnqueueLink(ClearFragmentAndQuery(p.url),
                   URLString[ClearFragmentAndQuery(p.url)], w)

\* The work queue after the links of a page are processed in order, from
\* the i-th on.
RECURSIVE ProcessLinksFrom(_, _, _, _)
ProcessLinksFrom(base, links, i, w) ==
  IF i > Len(links) THEN w
  ELSE ProcessLinksFrom(base, links, i + 1, ProcessLink(ParseRef[base, links[i]], w))

ProcessLinks(base, links, w) == ProcessLinksFrom(base, links, 1, w)

\* An append that drops the Result of a failed fetch.
AppendIfFetched(rs, page) == IF page.Err = "nil" THEN Append(rs, page) ELSE rs

\* An append that reports only the links the crawl follows: those that
\* resolve to the host of the seed.
AppendCrawledLinks(rs, page) ==
  LET Followed(l) == /\ ParseRef[ParseURL[page.URL].url, l].ok
                     /\ SameHost(ParseRef[ParseURL[page.URL].url, l].url)
  IN Append(rs, [page EXCEPT !.Links = SelectSeq(@, Followed)])

\* results = append(results, page).
AppendResult(rs, page) == Append(rs, page)

\* case page := <-fetched: the Result of fetcher w.  An unparseable page URL
\* breaks out of the select before the links and before the append.
RecvFetched(w) ==
  /\ pc = "select"
  /\ RecvReady(w)
  /\ fetching' = Decr(fetching)
  /\ IF ~ParseURL[fetchers[w].r.URL].ok
     THEN UNCHANGED <<work, results>>
     ELSE /\ work' = ProcessLinks(ParseURL[fetchers[w].r.URL].url,
                                  fetchers[w].r.Links, work)
          /\ results' = AppendResult(results, fetchers[w].r)
  /\ fetchers' = [fetchers EXCEPT ![w] = [st |-> "recv", r |-> NoResult]]
  /\ arrived' = Append(arrived, fetchers[w].r.URL)
  /\ pc' = "loop"
  /\ UNCHANGED <<addr, numFetchers, pages, root, closed, visited, sendWork, next,
                 err, sent, calls>>

(***************************************************************************)
(* startFetcher.                                                           *)
(***************************************************************************)
\* A fetcher that drops the error of c.fetch.
FetchResultNoErr(r) == [URL |-> r.URL, Links |-> FetchLinks(r.URL), Err |-> "nil"]

\* r.Links, r.Err = c.fetch(r.URL).
FetchResult(r) == [URL |-> r.URL, Links |-> FetchLinks(r.URL), Err |-> FetchErr(r.URL)]

\* The fetcher calls c.fetch, which returns; then it is at out <- r.
Fetch(w) ==
  /\ fetchers[w].st = "fetch"
  /\ fetchers' = [fetchers EXCEPT ![w] = [st |-> "send", r |-> FetchResult(fetchers[w].r)]]
  /\ calls' = calls (+) SetToBag({fetchers[w].r.URL})
  /\ UNCHANGED <<addr, numFetchers, pages, pc, root, closed, work, visited, fetching,
                 sendWork, next, results, err, sent, arrived>>

\* tofetch is closed: the range loop ends and the fetcher returns.
FetcherExit(w) ==
  /\ fetchers[w].st = "recv"
  /\ closed
  /\ fetchers' = [fetchers EXCEPT ![w] = [st |-> "exit", r |-> NoResult]]
  /\ UNCHANGED <<addr, numFetchers, pages, pc, root, closed, work, visited, fetching,
                 sendWork, next, results, err, sent, calls, arrived>>

(***************************************************************************)
(* Crawl: the clean-up of the results.                                     *)
(***************************************************************************)
\* A Result, as a value.
Results == [URL : Str, Links : Strs, Err : {"nil", "not found"}]

\* s with x inserted before the first element that is not less than x.
InsertString[s \in Strs, x \in Str] ==
  IF s = <<>> THEN <<x>>
  ELSE IF StrLess[Head(s), x] THEN <<Head(s)>> \o InsertString[Tail(s), x]
  ELSE <<x>> \o s

\* sort.Strings(s).
SortStrings[s \in Strs] ==
  IF s = <<>> THEN <<>> ELSE InsertString[SortStrings[Tail(s)], Head(s)]

\* A clean-up that leaves the links as fetched.
LinksUnsorted(rs) == rs

\* for _, res := range results { sort.Strings(res.Links) }: res is a copy,
\* its Links share the array of results[i].Links, which is sorted in place.
SortLinks(rs) == [i \in 1..Len(rs) |-> [rs[i] EXCEPT !.Links = SortStrings[@]]]

\* The less function given to sort.Slice.
LessURL(a, b) == StrLess[a.URL, b.URL]

\* The places where x can stand in the sorted s: after everything less than
\* x, before everything x is less than.
Insertions[s \in Seq(Results), x \in Results] ==
  { SubSeq(s, 1, k) \o <<x>> \o SubSeq(s, k + 1, Len(s)) :
      k \in { j \in 0..Len(s) : /\ \A i \in 1..j : ~LessURL(x, s[i])
                                /\ \A i \in (j + 1)..Len(s) : ~LessURL(s[i], x) } }

\* The orderings of rs that the less function allows.
Orderings[rs \in Seq(Results)] ==
  IF rs = <<>> THEN {<<>>}
  ELSE UNION { Insertions[s, Head(rs)] : s \in Orderings[Tail(rs)] }

\* A clean-up that leaves the results in their order of arrival.
ArrivalOrder(rs) == {rs}

\* sort.Slice(rs, less): any ordering of rs that less allows (the sort is
\* not stable, elements that compare equal end in an unspecified order).
SortSlice(rs) == Orderings[rs]

\* The clean-up and the return.
CleanUp ==
  /\ pc = "cleanup"
  /\ results' \in SortSlice(SortLinks(results))
  /\ err' = "nil"
  /\ pc' = "returned"
  /\ UNCHANGED <<addr, numFetchers, pages, root, closed, work, visited, fetching,
                 sendWork, next, fetchers, sent, calls, arrived>>

(***************************************************************************)
(* The specifications.                                                     *)
(***************************************************************************)
Orchestrator ==
  \/ StartInvalid
  \/ Start
  \/ SkipVisited
  \/ OfferWork
  \/ CloseIntake
  \/ AwaitResults
  \/ \E w \in Fetchers : SendWork(w)
  \/ \E w \in Fetchers : RecvFetched(w)
  \/ CleanUp

Fetcher(w) == Fetch(w) \/ FetcherExit(w)

Next == Orchestrator \/ \E w \in Fetchers : Fetcher(w)

Spec == Init /\ [][Next]_vars

\* Every fetch call returns, and the goroutines are scheduled fairly.
FairSpec ==
  /\ Spec
  /\ WF_vars(Orchestrator)
  /\ \A w \in 1..MaxFetchers : WF_vars(w \in Fetchers /\ Fetcher(w))

\* The page whose fetch never returns, in a crawl with a hung c.fetch.
HungURL == PageB

\* A fetcher whose c.fetch(HungURL) never returns.
HungFetcher(w) == (Fetch(w) /\ fetchers[w].r.URL # HungURL) \/ FetcherExit(w)

HungNext == Orchestrator \/ \E w \in Fetchers : HungFetcher(w)

\* Every other fetch call returns, and the goroutines are scheduled fairly.
HungSpec ==
  /\ Init
  /\ [][HungNext]_vars
  /\ WF_vars(Orchestrator)
  /\ \A w \in 1..MaxFetchers : WF_vars(w \in Fetchers /\ HungFetcher(w))

(***************************************************************************)
(* What a crawl of a graph is to return, computed from the seed and the    *)
(* graph alone.                                                            *)
(***************************************************************************)
Range(q) == {q[i] : i \in 1..Len(q)}

URLsOf(rs) == {rs[i].URL : i \in 1..Len(rs)}

\* The bag of the elements of a sequence.
RECURSIVE BagOfSeq(_)
BagOfSeq(q) == IF q = <<>> THEN EmptyBag ELSE SetToBag({Head(q)}) (+) BagOfSeq(Tail(q))

\* The host of a URL string.
HostOf[u \in Str] == ParseURL[u].url.Host

\* A resolved link, with its fragment and query cleared: whether it
\* resolved, its host and its string.
Normalized[p \in Parsed] ==
  [ok |-> p.ok,
   host |-> p.url.Host,
   key |-> URLString[[p.url EXCEPT !.Fragment = <<>>, !.RawQuery = <<>>]]]

\* The link l of page u, resolved, with its fragment and query cleared.
Resolved[u \in Str, l \in Str] == Normalized[ParseRef[ParseURL[u].url, l]]

\* The same-host pages the page u of graph g links to, by normalized URL.
Targets(g, seed, u) ==
  { Resolved[u, l].key :
      l \in { x \in Range(LinksIn(g, u)) :
                Resolved[u, x].ok /\ Resolved[u, x].host = HostOf[seed] } }

\* The URLs reachable from the pages S by same-host links.
RECURSIVE Closure(_, _, _)
Closure(g, seed, S) ==
  LET T == S \cup UNION {Targets(g, seed, u) : u \in S}
  IN IF T = S THEN S ELSE Closure(g, seed, T)

Reachable(g, seed) == Closure(g, seed, {seed})

\* The least string of a non-empty set.
Least(S) == CHOOSE x \in S : \A y \in S : ~StrLess[y, x]

\* The strings of a set in ascending order.
Ascending[S \in SUBSET Str] ==
  IF S = {} THEN <<>> ELSE <<Least(S)>> \o Ascending[S \ {Least(S)}]

\* Whether the strings of q are in ascending order.
IsSortedStrings(q) == \A i \in 1..(Len(q) - 1) : ~StrLess[q[i + 1], q[i]]

\* Whether rs is the crawl of graph g from the seed: an entry for each
\* reachable URL, in ascending order, with the error and the sorted links
\* of its page.
IsCrawlOf(rs, g, seed) ==
  /\ [i \in 1..Len(rs) |-> rs[i].URL] = Ascending[Reachable(g, seed)]
  /\ \A i \in 1..Len(rs) :
       /\ rs[i].Err = ErrIn(g, rs[i].URL)
       /\ IsSortedStrings(rs[i].Links)
       /\ BagOfSeq(rs[i].Links) = BagOfSeq(LinksIn(g, rs[i].URL))

Returned == pc = "returned" /\ err = "nil"

(***************************************************************************)
(* The claims.                                                             *)
(***************************************************************************)
\* C1: with at least one fetcher and a seed that parses, under fair
\* scheduling and fetch calls that return, Crawl eventually finds the work
\* queue empty with no fetch in progress, closes tofetch and returns.
C1_Terminates ==
  (numFetchers >= 1 /\ SeedParses(addr))
    ~> (pc = "returned" /\ closed /\ work = <<>> /\ fetching = 0)

C1_Witness ==
  /\ pc = "returned" /\ closed /\ work = <<>> /\ fetching = 0
  /\ numFetchers = MaxFetchers
  /\ Len(results) >= 3

\* C2: when Crawl returns, the URLs of the results are exactly the URLs
\* reachable from the seed by same-host links (resolved, fragment and query
\* cleared), each in exactly one entry.
C2_ExactlyReachable ==
  Returned =>
    LET reachable == Reachable(pages, addr)
    IN /\ URLsOf(results) = reachable
       /\ Len(results) = Cardinality(reachable)

C2_Witness ==
  /\ Returned
  /\ pages = TestGraph
  /\ URLsOf(results) = {RootURL, PageSlash, PageA, PageB, PageAB}
  /\ Len(results) = 5

\* C3: no URL is sent on tofetch more than once, and c.fetch is called
\* for no URL more than once.
C3_FetchedAtMostOnce ==
  /\ \A u \in BagToSet(sent) : CopiesIn(u, sent) = 1
  /\ \A u \in BagToSet(calls) : CopiesIn(u, calls) = 1

\* A URL that was already fetched stands at the head of the queue again.
C3_Witness ==
  /\ pc = "loop"
  /\ work # <<>>
  /\ CopiesIn(work[1], calls) = 1
  /\ \E i \in 2..Len(work) : work[i] = work[1]

\* C4: every URL sent to a fetcher, every URL of the queue and every URL
\* of a result has the host of the seed; a cross-host link stays in the
\* links of the page it was found on.
C4_HostContainment ==
  /\ \A u \in BagToSet(sent) \cup Range(work) \cup URLsOf(results) :
       HostOf[u] = HostOf[addr]
  /\ \A i \in 1..Len(results) :
       Range(FetchLinks(results[i].URL)) \subseteq Range(results[i].Links)

C4_Witness ==
  /\ Returned
  /\ \E i \in 1..Len(results) : \E l \in Range(results[i].Links) :
       /\ Resolved[results[i].URL, l].ok
       /\ Resolved[results[i].URL, l].host # HostOf[addr]

\* C5: the value Crawl returns is a function of the seed and the graph: it
\* is the same for every number of fetchers and every order of arrival.
C5_Deterministic == Returned => IsCrawlOf(results, pages, addr)

\* The results arrived in another order than the one returned.
C5_Witness ==
  /\ Returned
  /\ numFetchers = MaxFetchers
  /\ Len(arrived) >= 3
  /\ arrived # [i \in 1..Len(results) |-> results[i].URL]

\* The pages among S whose fetch fails.
Failing(S) == {u \in S : ErrIn(pages, u) # "nil"}

\* The graph in which the pages F are served with no links.
Healed(F) == pages @@ [u \in F |-> <<>>]

\* The results, had no fetch failed.
WithoutErrors(rs) == [i \in 1..Len(rs) |-> [rs[i] EXCEPT !.Err = "nil"]]

\* A step that receives the Result of a failed fetch.
ReceivesFailure ==
  \E w \in Fetchers :
    /\ pc = "select"
    /\ fetchers[w].st = "send"
    /\ fetchers[w].r.Err # "nil"
    /\ fetchers'[w].st = "recv"

\* C6: a failed fetch does not stop the crawl: the failed page is returned
\* with its error, its Result adds nothing to the work queue, and the other
\* entries are those of the crawl in which it is served with no links.
C6_ErrorContained ==
  /\ [](Returned =>
          LET failed == Failing(Reachable(pages, addr))
          IN /\ failed \subseteq URLsOf(results)
             /\ \A i \in 1..Len(results) :
                  IF results[i].URL \in failed
                  THEN results[i].Err = ErrIn(pages, results[i].URL)
                       /\ results[i].Err # "nil"
                  ELSE results[i].Err = "nil"
             /\ IsCrawlOf(WithoutErrors(results), Healed(failed), addr))
  /\ [][ReceivesFailure => work' = work]_vars

\* A crawl returned a failed page and, after it, a page that succeeded.
C6_Witness ==
  /\ Returned
  /\ \E i, j \in 1..Len(results) :
       /\ results[i].Err # "nil"
       /\ results[j].Err = "nil"
       /\ \E k \in 1..Len(arrived) : \E m \in (k + 1)..Len(arrived) :
            arrived[k] = results[i].URL /\ arrived[m] = results[j].URL

\* The bag of the URLs the fetchers hold: sent to them, their Result not
\* yet received.
HeldByFetchers ==
  LET held == {w \in Fetchers : fetchers[w].st \in {"fetch", "send"}}
  IN [u \in {fetchers[w].r.URL : w \in held} |->
        Cardinality({w \in held : fetchers[w].r.URL = u})]

ResultURLs == [i \in 1..Len(results) |-> results[i].URL]

\* C7: every URL sent to a fetcher is, exactly once, either with a fetcher
\* or in the results, and every Result received is appended; when Crawl
\* returns, the results hold exactly one entry for every URL sent, with
\* what its fetch returned.
C7_OneEntryPerDispatch ==
  /\ (pc # "start" /\ err = "nil") => BagOfSeq(ResultURLs) (+) HeldByFetchers = sent
  /\ pc \in {"loop", "select", "cleanup"} => arrived = ResultURLs
  /\ Returned =>
       /\ BagOfSeq(ResultURLs) = sent
       /\ BagOfSeq(arrived) = sent
       /\ calls = sent
       /\ \A i \in 1..Len(results) :
            /\ results[i].Err = FetchErr(results[i].URL)
            /\ BagOfSeq(results[i].Links) = BagOfSeq(FetchLinks(results[i].URL))

\* A crawl returned entries for a failed fetch and for a successful one.
C7_Witness ==
  /\ Returned
  /\ numFetchers = MaxFetchers
  /\ \E i \in 1..Len(results) : results[i].Err # "nil"
  /\ \E i \in 1..Len(results) : results[i].Err = "nil" /\ results[i].Links # <<>>
  /\ BagCardinality(sent) >= 3

\* C8: Crawl returns an error exactly when the seed does not parse, and
\* then no results, with no fetcher started and no fetch called; per-page
\* and per-link errors leave the returned error nil.
C8_ErrorOnlyForSeed ==
  pc = "returned" =>
    /\ err # "nil" <=> ~ParseURL[addr].ok
    /\ err # "nil" =>
         /\ results = <<>>
         /\ \A w \in Fetchers : fetchers[w].st = "none"
         /\ calls = EmptyBag
         /\ sent = EmptyBag

C8_Witness ==
  /\ pc = "returned"
  /\ err # "nil"
  /\ numFetchers = MaxFetchers
  /\ pages = TestGraph

\* C9: with at least one fetcher, a crawl that has not returned can always
\* take a step: in particular when the orchestrator offers a URL while every
\* fetcher is blocked sending its Result.
C9_NoDeadlock ==
  (numFetchers >= 1 /\ pc # "returned") => ENABLED Next

\* The orchestrator offers a URL and every fetcher is blocked at its send.
C9_Witness ==
  /\ pc = "select"
  /\ sendWork
  /\ numFetchers >= 2
  /\ \A w \in Fetchers : fetchers[w].st = "send"

\* C10: the returned entries are in strictly ascending order of URL, and
\* the links of every entry are in ascending order.
C10_Sorted ==
  Returned =>
    /\ \A i \in 1..(Len(results) - 1) : StrLess[results[i].URL, results[i + 1].URL]
    /\ \A i \in 1..Len(results) : IsSortedStrings(results[i].Links)

\* The Results arrived out of order, one of them with its links out of order.
C10_Witness ==
  /\ Returned
  /\ \E k \in 1..(Len(arrived) - 1) : StrLess[arrived[k + 1], arrived[k]]
  /\ \E i \in 1..Len(results) : ~IsSortedStrings(FetchLinks(results[i].URL))

\* The fetchers that hold a URL: it was sent to them, its Result is not yet
\* received.
Busy == {w \in Fetchers : fetchers[w].st \in {"fetch", "send"}}

\* C11: the number of fetches in progress, which is the number of fetchers
\* holding a URL, never exceeds the number of fetchers started, which is
\* numFetchers when that is not negative.
C11_BoundedInFlight ==
  /\ fetching = Cardinality(Busy)
  /\ fetching <= Cardinality(Fetchers)
  /\ numFetchers >= 0 => fetching <= numFetchers

\* Every fetcher holds a URL, and more work waits.
C11_Witness ==
  /\ numFetchers = MaxFetchers
  /\ fetching = numFetchers
  /\ work # <<>>

\* C12: tofetch is closed only by a step taken with the queue empty and no
\* fetch in progress; once closed it stays closed, nothing is sent and
\* nothing is received, so the loop is left once and no result is missed.
C12_ClosesOnlyWhenDone ==
  /\ [][(closed' /\ ~closed) =>
          (work = <<>> /\ fetching = 0 /\ Busy = {} /\ pc = "loop" /\ pc' = "cleanup")]_vars
  /\ [][closed => (closed' /\ sent' = sent /\ arrived' = arrived /\ pc' # "loop"
                   /\ pc' # "select")]_vars
  /\ [](pc \in {"cleanup", "returned"} /\ err = "nil" => closed /\ work = <<>> /\ fetching = 0)
  /\ [](pc \in {"start", "loop", "select"} => ~closed)

\* The queue is empty while a fetcher is about to hand over a Result whose
\* links refill it.
C12_Witness ==
  /\ pc = "select"
  /\ ~sendWork
  /\ work = <<>>
  /\ fetching > 0
  /\ \E w \in Fetchers :
       /\ fetchers[w].st = "send"
       /\ ProcessLinks(ParseURL[fetchers[w].r.URL].url, fetchers[w].r.Links, work) # <<>>

\* C13: fetching is never negative and equals the number of URLs sent
\* minus the number of Results received; a send adds exactly one, a receive
\* takes exactly one, and no other step changes it.
C13_CounterBalance ==
  /\ [](fetching >= 0 /\ fetching = BagCardinality(sent) - Len(arrived))
  /\ [][fetching' = fetching + (IF sent' # sent THEN 1 ELSE 0)
                              - (IF arrived' # arrived THEN 1 ELSE 0)]_vars
  /\ [][(sent' # sent => BagCardinality(sent') = BagCardinality(sent) + 1)
        /\ (arrived' # arrived => Len(arrived') = Len(arrived) + 1)]_vars

\* Two URLs are with fetchers after a Result was received.
C13_Witness ==
  /\ fetching = 2
  /\ Len(arrived) >= 1
  /\ BagCardinality(sent) = Len(arrived) + 2

DispatchedURLParses ==
  /\ \A w \in Busy : ParseURL[fetchers[w].r.URL].ok
  /\ \A i \in 1..Len(work) : ParseURL[work[i]].ok
  /\ (pc \in {"loop", "select", "cleanup"} => Len(results) = Len(arrived))

\* C16: the links of every entry are the raw strings its fetch returned:
\* the very list until the clean-up, and the same strings, each as many
\* times, in the value returned.
C16_RawLinksReported ==
  /\ pc \in {"loop", "select", "cleanup"} =>
       \A i \in 1..Len(results) : results[i].Links = FetchLinks(results[i].URL)
  /\ Returned =>
       \A i \in 1..Len(results) :
         /\ Len(results[i].Links) = Len(FetchLinks(results[i].URL))
         /\ \A l \in Range(FetchLinks(results[i].URL)) :
              Cardinality({k \in 1..Len(results[i].Links) : results[i].Links[k] = l})
                = Cardinality({k \in 1..Len(FetchLinks(results[i].URL)) :
                                 FetchLinks(results[i].URL)[k] = l})

\* The returned links hold a link that does not resolve, a link twice, a
\* link to another host and a link with a query.
C16_Witness ==
  /\ Returned
  /\ \E i \in 1..Len(results) : \E l \in Range(results[i].Links) :
       ~Resolved[results[i].URL, l].ok
  /\ \E i \in 1..Len(results) :
       Len(results[i].Links) > Cardinality(Range(results[i].Links))
  /\ \E i \in 1..Len(results) : \E l \in Range(results[i].Links) :
       Resolved[results[i].URL, l].ok /\ Resolved[results[i].URL, l].host # HostOf[addr]
  /\ \E i \in 1..Len(results) : \E l \in Range(results[i].Links) : Index[l, "?"] > 0

\* C17: in the select, the send of the head of the queue is offered exactly
\* when the queue is not empty, and can be taken with every fetcher at its
\* receive; the receive is always offered, and can be taken with every
\* fetcher at its send; no empty URL is sent; and a step of the select is
\* one send or one receive, never both.
C17_SelectOffers ==
  /\ [](pc = "select" =>
          /\ sendWork <=> work # <<>>
          /\ sendWork => (next = work[1] /\ next # <<>>)
          /\ \A w \in Fetchers :
               /\ (ENABLED SendWork(w)) <=> (work # <<>> /\ fetchers[w].st = "recv")
               /\ (ENABLED RecvFetched(w)) <=> (fetchers[w].st = "send"))
  /\ [](\A u \in BagToSet(sent) : u # <<>>)
  /\ [][(pc = "select" /\ pc' # "select") =>
          /\ pc' = "loop"
          /\ (sent' # sent) # (arrived' # arrived)
          /\ BagCardinality(sent') + Len(arrived') = BagCardinality(sent) + Len(arrived) + 1]_vars

\* The select can send to one fetcher and can receive from another.
C17_Witness ==
  /\ pc = "select"
  /\ sendWork
  /\ \E w \in Fetchers : fetchers[w].st = "recv"
  /\ \E w \in Fetchers : fetchers[w].st = "send"

\* Every fetcher has left its range loop and returned.
AllExited == \A w \in Fetchers : fetchers[w].st = "exit"

\* C18: tofetch is closed by a step in which every fetcher waits at its
\* receive from tofetch; from then on every fetcher is at that receive or
\* has returned; and once Crawl has left its loop every fetcher eventually
\* returns, and stays so.
C18_FetchersTerminate ==
  /\ [][(closed' /\ ~closed) => \A w \in Fetchers : fetchers[w].st = "recv"]_vars
  /\ [](closed => \A w \in Fetchers : fetchers[w].st \in {"recv", "exit"})
  /\ [][\A w \in Fetchers : fetchers[w].st = "exit" => fetchers'[w].st = "exit"]_vars
  /\ (pc \in {"cleanup", "returned"} /\ err = "nil") ~> AllExited

\* Crawl has returned the results of several fetchers, which have all returned.
C18_Witness ==
  /\ Returned
  /\ closed
  /\ numFetchers = MaxFetchers
  /\ AllExited
  /\ Len(results) >= 2
  /\ Cardinality(Range(arrived)) >= 2

\* The URLs reachable from the seed by paths that do not go through u.
ReachableAround(u) ==
  Reachable([v \in DOMAIN pages \ {u} |-> pages[v]], addr) \ {u}

\* C19: when c.fetch(HungURL) never returns, with two fetchers or more,
\* every URL reachable around the hung page is eventually fetched and its
\* Result appended; if the hung page is reachable it is eventually sent, and
\* from then on its fetcher stays in the fetch, fetching stays above 0 and
\* Crawl neither closes tofetch nor returns.
C19_HungFetchContained ==
  /\ (numFetchers >= 2 /\ SeedParses(addr)) ~>
       /\ work = <<>>
       /\ pc \in {"select", "returned"}
       /\ fetching = (IF pc = "select" THEN 1 ELSE 0)
       /\ ReachableAround(HungURL) \subseteq URLsOf(results)
       /\ IF HungURL \in Reachable(pages, addr)
          THEN HungURL \in BagToSet(sent) /\ pc = "select"
          ELSE pc = "returned"
  /\ [](HungURL \in BagToSet(sent) =>
          /\ fetching >= 1
          /\ ~closed
          /\ pc \in {"loop", "select"}
          /\ Cardinality({w \in Fetchers : fetchers[w].st = "fetch"
                                           /\ fetchers[w].r.URL = HungURL}) = 1)

\* The hung page holds one fetcher, and the Results of the other pages
\* have all arrived, some of them after the hung page was sent.
C19_Witness ==
  /\ numFetchers = 2
  /\ pages = TestGraph
  /\ pc = "select"
  /\ fetching = 1
  /\ \E w \in Fetchers : fetchers[w].st = "fetch" /\ fetchers[w].r.URL = HungURL
  /\ URLsOf(results) = {RootURL, PageSlash, PageA, PageAB}

\* C20: with numFetchers <= 0 and a seed that parses, Crawl starts no
\* fetcher and never sends, receives, closes tofetch or returns: it stays
\* with the seed alone in the queue and fetching = 0, and once in the select
\* no step is possible.
C20_NoFetcherBlocksForever ==
  (numFetchers <= 0 /\ SeedParses(addr) /\ pc # "start") =>
    /\ DOMAIN fetchers = {}
    /\ pc \in {"loop", "select"}
    /\ work = <<addr>>
    /\ fetching = 0
    /\ results = <<>>
    /\ sent = EmptyBag /\ arrived = <<>> /\ visited = {}
    /\ ~closed
    /\ pc = "select" => (sendWork /\ next = addr /\ ~ENABLED Next)

\* A Crawl with a negative numFetchers is blocked offering the seed.
C20_Witness ==
  /\ numFetchers < 0
  /\ pc = "select"
  /\ sendWork
  /\ work = <<addr>>
  /\ ~ENABLED Next

====
